---------------------------- MODULE Spec2Model ----------------------------
(***************************************************************************)
(* A model of robot_eval_logger: the EvalLogger coordinator                *)
(* (eval_logger.py), its background reporter thread, the FrameVisualizer   *)
(* window buffer (visualize/visualize_frames.py) and the storage backends  *)
(* (storage/local.py, storage/hugging_face.py).                            *)
(*                                                                         *)
(* The module holds several specifications over one set of variables:      *)
(*   Spec          the foreground episode pipeline: log_episode with the   *)
(*                 success series, the frame windows and the metrics       *)
(*                 sink, the flush of the windows;                         *)
(*   SpecWindow    the same pipeline with a visualizer, long enough for    *)
(*                 two full frame windows;                                 *)
(*   SpecStore     the pipeline with a LocalStorage data saver;            *)
(*   SpecReporter  foreground log_step / stop_time_logging interleaved     *)
(*                 statement by statement with the reporter thread;        *)
(*   SpecTeardown  episodes, stop_time_logging, the reporter and __del__;  *)
(*   SpecMirror    the pipeline with a HuggingFaceStorage data saver and   *)
(*                 the upload loop of _upload_to_hf;                       *)
(*   SpecTracker   log_success_rates on one label, up to 22 flags;         *)
(*   SpecFailure   log_step and log_episode beside a reporter that ends    *)
(*                 by a sink error;                                        *)
(*   SpecSequence  log_episode with sink, visualizer and saver together;   *)
(*   SpecRestart   _start_time_logging_thread and stop_time_logging calls  *)
(*                 beside the reporter threads they start and stop;        *)
(*   SpecBuffer    log_episode with a frame visualizer only;               *)
(*   SpecInterrupt the reporter and stop_time_logging under a fair         *)
(*                 scheduler;                                              *)
(*   SpecElapsed   the reporter with a running clock, restarted after a    *)
(*                 sink error.                                             *)
(* Each specification leaves the variables of the other parts unchanged.   *)
(***************************************************************************)
EXTENDS Integers, Sequences, FiniteSets, TLC

\* ------------------------------------------------------------------ bounds
\* log_step calls made by the foreground
MaxSteps == 2
\* readings of the wall clock (time.time()), in minutes
MaxTime == 2
\* records the reporter pushes to the sink
MaxEmits == 2
\* stop_time_logging calls made by the foreground
MaxStops == 2
\* FrameVisualizer(success_viz_every_n=...): the window capacity W
success_viz_every_n == 2
\* the largest episode index a caller passes to log_episode: in the
\* pipeline, the window and the store specification
MaxEpisodeIndex == 2
MaxWindowIndex == 2 * success_viz_every_n - 1
MaxStoreIndex == 1
\* the readings of datetime.now() a save_metadata call can see
MaxStamp == 0
\* the largest episode index passed to log_episode before a teardown
MaxTeardownIndex == 0
\* the largest episode index passed to log_episode with a HuggingFaceStorage
MaxMirrorIndex == 0
\* the largest episode index passed to log_episode beside a failing reporter
MaxFailureIndex == 0
\* the largest episode index passed to log_episode with sink, visualizer
\* and saver together
MaxSequenceIndex == 1
\* log_success_rates calls under one label, and the failures among them
MaxFlags == 22
MaxFailures == 2

\* ------------------------------------------------------------------ state
VARIABLES
    \* EvalLogger.__init__ arguments (None or not)
    wandb_logger, interval_configured,
    \* step tracking (eval_logger.py:42-45)
    total_steps, steps_since_last_log, time_elapsed, last_log_time,
    \* threading.Event and the Thread handle (eval_logger.py:53-54); 0 is None
    time_logging, time_logging_thread,
    \* reporter threads: position, and the locals current_time,
    \* steps read for the rate, minutes_elapsed
    rpc, r_time, r_steps, r_minutes,
    \* foreground: position, the value loaded by +=, the thread being joined
    fpc, f_tmp, f_join,
    \* the wall clock
    now,
    \* what the sink received from the reporter, and the outcome of stop calls
    n_emits, emitted_sum, last_emit, stop_result, stop_timed_out, n_stops,
    \* EvalLogger.__init__ arguments (None or not), and the visualizer's
    \* periodic_log_initial_and_final_frames
    frames_visualizer, data_saver, periodic,
    \* EvalLogger.past_success_rates, FrameVisualizer.past_frames,
    \* EvalLogger.current_episode
    past_success_rates, past_frames, current_episode,
    \* the sink: the keys declared with define_metric
    defined,
    \* BaseSaver.run_dir (<<>> while the attribute is unset) and the disk:
    \* metadata.json per run directory, the traj_{i}.pkl files
    run_dir, meta_file, traj_files,
    \* the last foreground call and its outcome
    last_call,
    \* __del__: "no" before it, "yes" while it runs, "done" after it; and the
    \* runs of _visualize_remaining_frames so far (0, 1, or 2 for more)
    finalizing, n_flushes,
    \* per label, about the log_episode calls made under it so far: did each
    \* carry a non-empty frame list, and did the k-th carry step k-1
    calls,
    \* the mapping log_success_rates returned last (rates in ten-thousandths)
    success_stats,
    \* HuggingFaceStorage._upload_to_hf: retry_count; the file being uploaded;
    \* the upload attempts and the time.sleep calls (seconds) made inside the
    \* current save call; the value _upload_to_hf returned; the files in the
    \* repository; how the current save call ended; what the last
    \* api.upload_file call of the current save call did
    retry_count, hf_file, hf_attempts, slept, upload_success, remote, hf_result,
    last_outcome

repVars == <<wandb_logger, interval_configured, total_steps,
             steps_since_last_log, time_elapsed, last_log_time, time_logging,
             time_logging_thread, rpc, r_time, r_steps, r_minutes, fpc, f_tmp,
             f_join, now, n_emits, emitted_sum, last_emit, stop_result,
             stop_timed_out, n_stops>>

epVars == <<frames_visualizer, data_saver, periodic, past_success_rates,
            past_frames, current_episode, defined, run_dir, meta_file,
            traj_files, last_call, finalizing, n_flushes, calls,
            success_stats>>

mirVars == <<retry_count, hf_file, hf_attempts, slept, upload_success,
             remote, hf_result, last_outcome>>

vars == <<repVars, epVars, mirVars>>

\* The reporter threads an EvalLogger can create: the one __init__ starts,
\* and one more for a later _start_time_logging_thread call.
Threads == {1, 2}

\* log_time_related_stats, lines 137-141: the rate, as the fraction
\* <<numerator, denominator>>; 0 when no time has passed
steps_per_minute(steps, minutes_elapsed) ==
    IF minutes_elapsed > 0 THEN <<steps, minutes_elapsed>> ELSE <<0, 1>>

NoEmit == [total_eval_steps |-> 0, steps |-> 0, minutes |-> 0,
           eval_steps_per_minute |-> <<0, 1>>, total_time_elapsed |-> 0]

\* Thread.is_alive(): started and not yet finished
is_alive(t) == rpc[t] \notin {"unborn", "dead", "failed", "crashed"}

\* An __init__ that starts the reporter whenever an interval is given,
\* without the test of line 52 for a sink.
InitReporter_interval_only(w, i) ==
    /\ wandb_logger = w
    /\ interval_configured = i
    /\ total_steps = 0
    /\ steps_since_last_log = 0
    /\ time_elapsed = 0
    /\ last_log_time = <<>>
    /\ time_logging = FALSE
    /\ time_logging_thread = IF i THEN 1 ELSE 0
    /\ rpc = [t \in Threads |-> IF i /\ t = 1 THEN "loop" ELSE "unborn"]
    /\ r_time = [t \in Threads |-> 0]
    /\ r_steps = [t \in Threads |-> 0]
    /\ r_minutes = [t \in Threads |-> 0]
    /\ fpc = "idle"
    /\ f_tmp = 0
    /\ f_join = 0
    /\ now = 0
    /\ n_emits = 0
    /\ emitted_sum = 0
    /\ last_emit = NoEmit
    /\ stop_result = "none"
    /\ stop_timed_out = FALSE
    /\ n_stops = 0

\* ---------------------------------------------------------- construction
\* EvalLogger.__init__: counters zero; with a sink and an interval the
\* reporter thread is started (_start_time_logging_thread).
InitReporter(w, i) ==
    /\ wandb_logger = w
    /\ interval_configured = i
    /\ total_steps = 0
    /\ steps_since_last_log = 0
    /\ time_elapsed = 0
    /\ last_log_time = <<>>
    /\ time_logging = FALSE
    /\ time_logging_thread = IF w /\ i THEN 1 ELSE 0
    /\ rpc = [t \in Threads |-> IF w /\ i /\ t = 1 THEN "loop" ELSE "unborn"]
    /\ r_time = [t \in Threads |-> 0]
    /\ r_steps = [t \in Threads |-> 0]
    /\ r_minutes = [t \in Threads |-> 0]
    /\ fpc = "idle"
    /\ f_tmp = 0
    /\ f_join = 0
    /\ now = 0
    /\ n_emits = 0
    /\ emitted_sum = 0
    /\ last_emit = NoEmit
    /\ stop_result = "none"
    /\ stop_timed_out = FALSE
    /\ n_stops = 0

\* ------------------------------------------------------ the reporter thread
\* a loop that goes on whatever the event says (while True)
R_Loop_ignore_event(t) ==
    /\ rpc[t] = "loop"
    /\ rpc' = [rpc EXCEPT ![t] = "stats"]
    /\ UNCHANGED <<wandb_logger, interval_configured, total_steps,
                   steps_since_last_log, time_elapsed, last_log_time,
                   time_logging, time_logging_thread, r_time, r_steps,
                   r_minutes, fpc, f_tmp, f_join, now, n_emits, emitted_sum,
                   last_emit, stop_result, stop_timed_out, n_stops>>
    /\ UNCHANGED <<epVars, mirVars>>

\* _periodic_logging, line 106: while not self._time_logging.is_set()
R_Loop(t) ==
    /\ rpc[t] = "loop"
    /\ rpc' = [rpc EXCEPT ![t] = IF time_logging THEN "exit" ELSE "stats"]
    /\ UNCHANGED <<wandb_logger, interval_configured, total_steps,
                   steps_since_last_log, time_elapsed, last_log_time,
                   time_logging, time_logging_thread, r_time, r_steps,
                   r_minutes, fpc, f_tmp, f_join, now, n_emits, emitted_sum,
                   last_emit, stop_result, stop_timed_out, n_stops>>
    /\ UNCHANGED <<epVars, mirVars>>

\* log_time_related_stats, lines 121-141: read the clock; the first wake only
\* records the baseline; later wakes add the elapsed minutes and read
\* steps_since_last_log for the rate.
R_Begin(t) ==
    /\ rpc[t] = "stats"
    /\ IF ~wandb_logger
       THEN /\ rpc' = [rpc EXCEPT ![t] = "wait"]
            /\ UNCHANGED <<r_time, r_steps, r_minutes, last_log_time,
                           time_elapsed>>
       ELSE /\ r_time' = [r_time EXCEPT ![t] = now]
            /\ IF last_log_time = <<>>
               THEN /\ last_log_time' = <<now>>
                    /\ rpc' = [rpc EXCEPT ![t] = "wait"]
                    /\ UNCHANGED <<r_steps, r_minutes, time_elapsed>>
               ELSE /\ r_minutes' = [r_minutes EXCEPT
                                       ![t] = now - last_log_time[1]]
                    /\ time_elapsed' = time_elapsed + (now - last_log_time[1])
                    /\ r_steps' = [r_steps EXCEPT ![t] = steps_since_last_log]
                    /\ rpc' = [rpc EXCEPT ![t] = "log"]
                    /\ UNCHANGED last_log_time
    /\ UNCHANGED <<wandb_logger, interval_configured, total_steps,
                   steps_since_last_log, time_logging, time_logging_thread,
                   fpc, f_tmp, f_join, now, n_emits, emitted_sum, last_emit,
                   stop_result, stop_timed_out, n_stops>>
    /\ UNCHANGED <<epVars, mirVars>>

\* log_time_related_stats, lines 144-151 and 156-158: declare the axis and
\* push the record, reading total_steps; a raising sink re-raises, and
\* _periodic_logging (lines 109-112) breaks out of its loop.
R_Log(t) ==
    /\ rpc[t] = "log"
    /\ \E sink_ok \in BOOLEAN :
         IF sink_ok
         THEN /\ n_emits < MaxEmits
              /\ n_emits' = n_emits + 1
              /\ emitted_sum' = emitted_sum + r_steps[t]
              /\ last_emit' = [total_eval_steps |-> total_steps,
                               steps |-> r_steps[t],
                               minutes |-> r_minutes[t],
                               eval_steps_per_minute |->
                                   steps_per_minute(r_steps[t], r_minutes[t]),
                               total_time_elapsed |-> time_elapsed]
              /\ rpc' = [rpc EXCEPT ![t] = "reset"]
         ELSE /\ rpc' = [rpc EXCEPT ![t] = "break"]
              /\ UNCHANGED <<n_emits, emitted_sum, last_emit>>
    /\ UNCHANGED <<wandb_logger, interval_configured, total_steps,
                   steps_since_last_log, time_elapsed, last_log_time,
                   time_logging, time_logging_thread, r_time, r_steps,
                   r_minutes, fpc, f_tmp, f_join, now, stop_result,
                   stop_timed_out, n_stops>>
    /\ UNCHANGED <<epVars, mirVars>>

\* R_Reset without line 155 (self.steps_since_last_log = 0)
R_Reset_keep_steps(t) ==
    /\ rpc[t] = "reset"
    /\ last_log_time' = <<r_time[t]>>
    /\ rpc' = [rpc EXCEPT ![t] = "wait"]
    /\ UNCHANGED <<wandb_logger, interval_configured, total_steps,
                   steps_since_last_log,
                   time_elapsed, time_logging, time_logging_thread, r_time,
                   r_steps, r_minutes, fpc, f_tmp, f_join, now, n_emits,
                   emitted_sum, last_emit, stop_result, stop_timed_out,
                   n_stops>>
    /\ UNCHANGED <<epVars, mirVars>>

\* log_time_related_stats, lines 154-155: reset tracking variables
R_Reset(t) ==
    /\ rpc[t] = "reset"
    /\ last_log_time' = <<r_time[t]>>
    /\ steps_since_last_log' = 0
    /\ rpc' = [rpc EXCEPT ![t] = "wait"]
    /\ UNCHANGED <<wandb_logger, interval_configured, total_steps,
                   time_elapsed, time_logging, time_logging_thread, r_time,
                   r_steps, r_minutes, fpc, f_tmp, f_join, now, n_emits,
                   emitted_sum, last_emit, stop_result, stop_timed_out,
                   n_stops>>
    /\ UNCHANGED <<epVars, mirVars>>

\* _periodic_logging, line 114: Event.wait(timeout) returns when the event is
\* set or when the interval has passed.  Without an interval the timeout is
\* None * 60, a TypeError outside the try block: the thread ends by the
\* uncaught exception ("crashed") and line 117 is not reached.
R_Wait(t) ==
    /\ rpc[t] = "wait"
    /\ rpc' = [rpc EXCEPT ![t] = IF interval_configured THEN "loop"
                                                        ELSE "crashed"]
    /\ UNCHANGED <<wandb_logger, interval_configured, total_steps,
                   steps_since_last_log, time_elapsed, last_log_time,
                   time_logging, time_logging_thread, r_time, r_steps,
                   r_minutes, fpc, f_tmp, f_join, now, n_emits, emitted_sum,
                   last_emit, stop_result, stop_timed_out, n_stops>>
    /\ UNCHANGED <<epVars, mirVars>>

\* R_Exit with the except clause of lines 110-112 swallowing the error and
\* going on to the next wait instead of breaking out of the loop.
R_Exit_resume(t) ==
    /\ rpc[t] \in {"exit", "break"}
    /\ IF rpc[t] = "break"
       THEN /\ rpc' = [rpc EXCEPT ![t] = "wait"]
            /\ UNCHANGED time_logging_thread
       ELSE /\ rpc' = [rpc EXCEPT ![t] = "dead"]
            /\ time_logging_thread' = 0
    /\ UNCHANGED <<wandb_logger, interval_configured, total_steps,
                   steps_since_last_log, time_elapsed, last_log_time,
                   time_logging, r_time, r_steps, r_minutes, fpc, f_tmp,
                   f_join, now, n_emits, emitted_sum, last_emit, stop_result,
                   stop_timed_out, n_stops>>
    /\ UNCHANGED <<epVars, mirVars>>

\* _periodic_logging, lines 110-112 and 117: after the loop, left because
\* the event is set ("exit") or by the break of the except clause
\* ("break"), self._time_logging_thread = None and the thread ends; the
\* end after a sink error is kept apart as "failed".
R_Exit(t) ==
    /\ rpc[t] \in {"exit", "break"}
    /\ time_logging_thread' = 0
    /\ rpc' = [rpc EXCEPT ![t] = IF rpc[t] = "break" THEN "failed"
                                                      ELSE "dead"]
    /\ UNCHANGED <<wandb_logger, interval_configured, total_steps,
                   steps_since_last_log, time_elapsed, last_log_time,
                   time_logging, r_time, r_steps, r_minutes, fpc, f_tmp,
                   f_join, now, n_emits, emitted_sum, last_emit, stop_result,
                   stop_timed_out, n_stops>>
    /\ UNCHANGED <<epVars, mirVars>>

\* ------------------------------------------------------ foreground: log_step
\* log_step, line 217: self.total_steps += 1 (the foreground is its only
\* writer), then the load of steps_since_last_log for line 218.
F_LogStepInc ==
    /\ fpc = "idle"
    /\ finalizing = "no"
    /\ total_steps < MaxSteps
    /\ total_steps' = total_steps + 1
    /\ fpc' = "ls_load"
    /\ UNCHANGED <<wandb_logger, interval_configured, steps_since_last_log,
                   time_elapsed, last_log_time, time_logging,
                   time_logging_thread, rpc, r_time, r_steps, r_minutes,
                   f_tmp, f_join, now, n_emits, emitted_sum, last_emit,
                   stop_result, stop_timed_out, n_stops>>
    /\ UNCHANGED <<epVars, mirVars>>

\* log_step, line 218: self.steps_since_last_log += 1 is a load ...
F_LogStepLoad ==
    /\ fpc = "ls_load"
    /\ f_tmp' = steps_since_last_log
    /\ fpc' = "ls_store"
    /\ UNCHANGED <<wandb_logger, interval_configured, total_steps,
                   steps_since_last_log, time_elapsed, last_log_time,
                   time_logging, time_logging_thread, rpc, r_time, r_steps,
                   r_minutes, f_join, now, n_emits, emitted_sum, last_emit,
                   stop_result, stop_timed_out, n_stops>>
    /\ UNCHANGED <<epVars, mirVars>>

\* ... and a store of the loaded value plus one.
F_LogStepStore ==
    /\ fpc = "ls_store"
    /\ steps_since_last_log' = f_tmp + 1
    /\ f_tmp' = 0
    /\ fpc' = "idle"
    /\ UNCHANGED <<wandb_logger, interval_configured, total_steps,
                   time_elapsed, last_log_time, time_logging,
                   time_logging_thread, rpc, r_time, r_steps, r_minutes,
                   f_join, now, n_emits, emitted_sum, last_emit, stop_result,
                   stop_timed_out, n_stops>>
    /\ UNCHANGED <<epVars, mirVars>>

\* ------------------------------------------- foreground: stop_time_logging
\* What every step of stop_time_logging leaves alone.
StopFrame ==
    UNCHANGED <<wandb_logger, interval_configured, total_steps,
                steps_since_last_log, time_elapsed, last_log_time, rpc,
                r_time, r_steps, r_minutes, f_tmp, now, n_emits, emitted_sum,
                last_emit, epVars, mirVars>>

\* the call itself
F_StopCall ==
    /\ fpc = "idle"
    /\ finalizing = "no"
    /\ n_stops < MaxStops
    /\ n_stops' = n_stops + 1
    /\ stop_result' = "none"
    /\ stop_timed_out' = FALSE
    /\ fpc' = "st_check1"
    /\ UNCHANGED <<time_logging, time_logging_thread, f_join>>
    /\ StopFrame

\* line 70: self._time_logging_thread is not None.  The attribute exists only
\* when a sink was given to __init__ (lines 52-54).
F_StopCheckNone ==
    /\ fpc = "st_check1"
    /\ IF ~wandb_logger
       THEN stop_result' = "raised" /\ fpc' = "idle"
       ELSE IF time_logging_thread = 0
            THEN stop_result' = "returned" /\ fpc' = "idle"
            ELSE stop_result' = stop_result /\ fpc' = "st_check2"
    /\ UNCHANGED <<time_logging, time_logging_thread, f_join, n_stops,
                   stop_timed_out>>
    /\ StopFrame

\* line 71: self._time_logging_thread.is_alive(), a second read of the handle
F_StopCheckAlive ==
    /\ fpc = "st_check2"
    /\ IF time_logging_thread = 0
       THEN stop_result' = "raised" /\ fpc' = "idle"
       ELSE IF is_alive(time_logging_thread)
            THEN stop_result' = stop_result /\ fpc' = "st_set"
            ELSE stop_result' = "returned" /\ fpc' = "idle"
    /\ UNCHANGED <<time_logging, time_logging_thread, f_join, n_stops,
                   stop_timed_out>>
    /\ StopFrame

\* line 73: self._time_logging.set()
F_StopSet ==
    /\ fpc = "st_set"
    /\ time_logging' = TRUE
    /\ fpc' = "st_cmp"
    /\ UNCHANGED <<time_logging_thread, f_join, n_stops, stop_result,
                   stop_timed_out>>
    /\ StopFrame

\* line 74: self._time_logging_thread != current_thread(); the foreground is
\* not the reporter thread, and None differs from it as well.
F_StopCompare ==
    /\ fpc = "st_cmp"
    /\ fpc' = "st_join"
    /\ UNCHANGED <<time_logging, time_logging_thread, f_join, n_stops,
                   stop_result, stop_timed_out>>
    /\ StopFrame

\* line 75: self._time_logging_thread.join(...): the handle is read again
F_StopJoinBegin ==
    /\ fpc = "st_join"
    /\ IF time_logging_thread = 0
       THEN stop_result' = "raised" /\ fpc' = "idle" /\ f_join' = 0
       ELSE stop_result' = stop_result /\ fpc' = "st_joining"
            /\ f_join' = time_logging_thread
    /\ UNCHANGED <<time_logging, time_logging_thread, n_stops,
                   stop_timed_out>>
    /\ StopFrame

\* line 75: join(timeout=1.0) returns when the thread has finished, or after
\* one second whatever the thread is doing.
JoinReturns(t, timed_out) == timed_out \/ ~is_alive(t)

F_StopJoinEnd ==
    /\ fpc = "st_joining"
    /\ \E timed_out \in BOOLEAN :
         /\ JoinReturns(f_join, timed_out)
         /\ stop_timed_out' = is_alive(f_join)
    /\ fpc' = "st_clear"
    /\ UNCHANGED <<time_logging, time_logging_thread, f_join, n_stops,
                   stop_result>>
    /\ StopFrame

\* line 76: self._time_logging_thread = None, and the return
F_StopClear ==
    /\ fpc = "st_clear"
    /\ time_logging_thread' = 0
    /\ f_join' = 0
    /\ stop_result' = "returned"
    /\ fpc' = "idle"
    /\ UNCHANGED <<time_logging, n_stops, stop_timed_out>>
    /\ StopFrame

\* ------------------------------------ foreground: _start_time_logging_thread
\* the call itself; the model has a thread left to start
F_StartCall ==
    /\ fpc = "idle"
    /\ finalizing = "no"
    /\ \E t \in Threads : rpc[t] = "unborn"
    /\ fpc' = "sp_check"
    /\ UNCHANGED <<time_logging, time_logging_thread, f_join, n_stops,
                   stop_result, stop_timed_out>>
    /\ StopFrame

\* line 60: if self._time_logging_thread is None.  Without a sink the
\* attribute does not exist (lines 52-54) and the call raises.
F_StartCheck ==
    /\ fpc = "sp_check"
    /\ fpc' = IF wandb_logger /\ time_logging_thread = 0 THEN "sp_clear"
                                                         ELSE "idle"
    /\ UNCHANGED <<time_logging, time_logging_thread, f_join, n_stops,
                   stop_result, stop_timed_out>>
    /\ StopFrame

\* line 61: self._time_logging.clear()
F_StartClear ==
    /\ fpc = "sp_clear"
    /\ time_logging' = FALSE
    /\ fpc' = "sp_new"
    /\ UNCHANGED <<time_logging_thread, f_join, n_stops, stop_result,
                   stop_timed_out>>
    /\ StopFrame

\* lines 62-64: self._time_logging_thread = Thread(...), not yet started
F_StartNew ==
    /\ fpc = "sp_new"
    /\ \E t \in Threads :
         /\ rpc[t] = "unborn"
         /\ \A u \in Threads : rpc[u] = "unborn" => t <= u
         /\ time_logging_thread' = t
    /\ fpc' = "sp_start"
    /\ UNCHANGED <<time_logging, f_join, n_stops, stop_result,
                   stop_timed_out>>
    /\ StopFrame

\* line 65: self._time_logging_thread.start(): the handle is read again; a
\* reporter that ended in between has set it to None (line 117) and the
\* call raises.
F_StartStart ==
    /\ fpc = "sp_start"
    /\ rpc' = IF time_logging_thread = 0 THEN rpc
              ELSE [rpc EXCEPT ![time_logging_thread] = "loop"]
    /\ fpc' = "idle"
    /\ UNCHANGED <<wandb_logger, interval_configured, total_steps,
                   steps_since_last_log, time_elapsed, last_log_time,
                   time_logging, time_logging_thread, r_time, r_steps,
                   r_minutes, f_tmp, f_join, now, n_emits, emitted_sum,
                   last_emit, stop_result, stop_timed_out, n_stops>>
    /\ UNCHANGED <<epVars, mirVars>>

\* ------------------------------------------------------------ the clock
\* time.time() advances between two readings (or does not).
Tick ==
    /\ now < MaxTime
    /\ now' = now + 1
    /\ UNCHANGED <<wandb_logger, interval_configured, total_steps,
                   steps_since_last_log, time_elapsed, last_log_time,
                   time_logging, time_logging_thread, rpc, r_time, r_steps,
                   r_minutes, fpc, f_tmp, f_join, n_emits, emitted_sum,
                   last_emit, stop_result, stop_timed_out, n_stops>>
    /\ UNCHANGED <<epVars, mirVars>>


\* ================================================= the episode pipeline
Labels == {"a", "b"}
\* logging_prefix=None is a dictionary key like any other
NoLabel == "None"
LabelKeys == Labels \cup {NoLabel}
\* frames_to_log: None, an empty list, a non-empty list
FrameInputs == {"none", "empty", "some"}
RobotTypes == {"franka", "widowx"}
Dirs == 0..(2 * MaxStamp + 1)

\* no metadata.json in a run directory
NoFile == [state |-> "none", time |-> 0, robot_type |-> ""]

\* The outcome of a foreground call: the error raised ("none" when it
\* returned), the keys of the mapping log_episode returned, whether the sink
\* got the record, whether save_episode was called and whether it wrote the
\* file, what FrameVisualizer.log_frames returned or raised, the success
\* series log_frames was handed (success_rates) and the value of
\* "num_episode" in the record pushed to the sink.
NoCall == [op |-> "none", label |-> NoLabel, step |-> 0, err |-> "none",
           keys |-> {}, emitted |-> FALSE, save_called |-> FALSE,
           saved |-> FALSE, frame_keys |-> {}, frame_err |-> "none",
           success_rates |-> <<>>, num_episode |-> 0]

\* the mapping of log_success_rates before any call
NoStats == [episode_success |-> 0, cumulative_num_success |-> 0,
            recent_success_rate |-> 0, overall_success_rate |-> 0]

InitEpisode(v, d, p) ==
    /\ frames_visualizer = v
    /\ data_saver = d
    /\ periodic = p
    /\ past_success_rates = [l \in LabelKeys |-> <<>>]
    /\ past_frames = [l \in LabelKeys |-> <<>>]
    /\ current_episode = 0
    /\ defined = {}
    /\ run_dir = <<>>
    /\ meta_file = [x \in Dirs |-> NoFile]
    /\ traj_files = {}
    /\ last_call = NoCall
    /\ finalizing = "no"
    /\ n_flushes = 0
    /\ calls = [l \in LabelKeys |-> [with_frames |-> TRUE, in_order |-> TRUE]]
    /\ success_stats = NoStats

\* np.mean(...[-20:]), line 250
recent_window == 20
\* round(..., 4), lines 249-254: rates are kept as integers, in units of 1e-4
RateScale == 10000

RECURSIVE Sum(_)
Sum(seq) == IF seq = <<>> THEN 0 ELSE Head(seq) + Sum(Tail(seq))

\* seq[-n:]
LastN(seq, n) ==
    IF Len(seq) <= n THEN seq ELSE SubSeq(seq, Len(seq) - n + 1, Len(seq))

\* round(num / den, 4) in units of 1e-4, ties to the even neighbour
Round4(num, den) ==
    LET q == (RateScale * num) \div den
        r == (RateScale * num) % den
    IN  IF 2 * r < den THEN q
        ELSE IF 2 * r > den THEN q + 1
        ELSE IF q % 2 = 0 THEN q ELSE q + 1

\* A to_log without the [-20:] slice of line 250: the recent rate is taken
\* over the whole series.
success_to_log_no_slice(flags) ==
    [episode_success |-> flags[Len(flags)],
     cumulative_num_success |-> Sum(flags),
     recent_success_rate |-> Round4(Sum(flags), Len(flags)),
     overall_success_rate |-> Round4(Sum(flags), Len(flags))]

\* log_success_rates, lines 249-264: the values returned for a label whose
\* series, the new flag included, is flags
success_to_log(flags) ==
    [episode_success |-> flags[Len(flags)],
     cumulative_num_success |-> Sum(flags),
     recent_success_rate |->
         Round4(Sum(LastN(flags, recent_window)),
                Len(LastN(flags, recent_window))),
     overall_success_rate |-> Round4(Sum(flags), Len(flags))]

\* log_success_rates, lines 244-246: the label's series with the flag appended
log_success_rates(series, label, episode_success) ==
    [series EXCEPT ![label] = Append(@, episode_success)]

SuccessKeys(label) ==
    {<<label, k>> : k \in {"episode_success", "cumulative_num_success",
                           "recent_success_rate", "overall_success_rate"}}

\* the append of a list, which never drops an entry
deque_append_unbounded(q, e, maxlen) ==
    Append(q, e)

\* deque(maxlen=n).append: a full deque drops its oldest entry
deque_append(q, e, maxlen) ==
    IF Len(q) >= maxlen THEN Append(Tail(q), e) ELSE Append(q, e)

\* the entries of a window whose frames are not None (lines 96-97, 160-161)
NonNull(q) == SelectSeq(q, LAMBDA e : e.frames)

\* A log_frames that leaves out line 108 (past_frames[...].clear()): the
\* window keeps its entries after the windowed visualization.
log_frames_no_clear(pf, step, label, frames) ==
    IF frames = "none"
    THEN [pf |-> pf, keys |-> {}, err |-> "none"]
    ELSE LET data == [step |-> step, frames |-> (frames = "some")]
             appended == [pf EXCEPT ![label] =
                             deque_append(@, data, success_viz_every_n)]
             episode_keys == IF frames = "some"
                             THEN {<<label, "frames">>, <<label, "video">>}
                             ELSE {}
         IN  IF (step + 1) % success_viz_every_n = 0 /\ periodic
             THEN IF Len(appended[label]) # success_viz_every_n
                  THEN [pf |-> appended, keys |-> {}, err |-> "AssertionError"]
                  ELSE IF NonNull(appended[label]) = <<>>
                  THEN [pf |-> appended, keys |-> {}, err |-> "cv2.error"]
                  ELSE [pf |-> appended,
                        keys |-> episode_keys \cup
                                 {<<label, "initial_and_final_frames">>},
                        err |-> "none"]
             ELSE [pf |-> appended, keys |-> episode_keys, err |-> "none"]

\* FrameVisualizer.log_frames: the windows after the call, the keys of the
\* returned mapping, and the error raised, if any.
\* A log_frames whose line 108 empties the windows of all labels.
log_frames_clear_all(pf, step, label, frames) ==
    IF frames = "none"
    THEN [pf |-> pf, keys |-> {}, err |-> "none"]
    ELSE LET data == [step |-> step, frames |-> (frames = "some")]
             appended == [pf EXCEPT ![label] =
                             deque_append(@, data, success_viz_every_n)]
             episode_keys == IF frames = "some"
                             THEN {<<label, "frames">>, <<label, "video">>}
                             ELSE {}
         IN  IF (step + 1) % success_viz_every_n = 0 /\ periodic
             THEN IF Len(appended[label]) # success_viz_every_n
                  THEN [pf |-> appended, keys |-> {}, err |-> "AssertionError"]
                  ELSE IF NonNull(appended[label]) = <<>>
                  THEN \* cv2.hconcat of an empty list
                       [pf |-> appended, keys |-> {}, err |-> "cv2.error"]
                  ELSE [pf |-> [l \in LabelKeys |-> <<>>],
                        keys |-> episode_keys \cup
                                 {<<label, "initial_and_final_frames">>},
                        err |-> "none"]
             ELSE [pf |-> appended, keys |-> episode_keys, err |-> "none"]

log_frames(pf, step, label, frames) ==
    IF frames = "none"
    THEN [pf |-> pf, keys |-> {}, err |-> "none"]
    ELSE LET data == [step |-> step, frames |-> (frames = "some")]
             appended == [pf EXCEPT ![label] =
                             deque_append(@, data, success_viz_every_n)]
             episode_keys == IF frames = "some"
                             THEN {<<label, "frames">>, <<label, "video">>}
                             ELSE {}
         IN  IF (step + 1) % success_viz_every_n = 0 /\ periodic
             THEN IF Len(appended[label]) # success_viz_every_n
                  THEN [pf |-> appended, keys |-> {}, err |-> "AssertionError"]
                  ELSE IF NonNull(appended[label]) = <<>>
                  THEN \* cv2.hconcat of an empty list
                       [pf |-> appended, keys |-> {}, err |-> "cv2.error"]
                  ELSE [pf |-> [appended EXCEPT ![label] = <<>>],
                        keys |-> episode_keys \cup
                                 {<<label, "initial_and_final_frames">>},
                        err |-> "none"]
             ELSE [pf |-> appended, keys |-> episode_keys, err |-> "none"]

\* FrameVisualizer.log_remaining_frames: the labels that get an artifact
log_remaining_frames(pf) ==
    {l \in LabelKeys : pf[l] # <<>> /\ NonNull(pf[l]) # <<>>}

\* LocalStorage.save_episode: self.run_dir is an attribute only once
\* make_save_dir has run; TrajData.save can fail on the disk.
save_episode_err(io_ok) ==
    IF run_dir = <<>> THEN "AttributeError"
    ELSE IF ~io_ok THEN "OSError"
    ELSE "none"

\* LocalStorage.save_episode, lines 87-88: the files after the call
save_episode_files(i_episode, io_ok) ==
    IF save_episode_err(io_ok) = "none"
    THEN traj_files \cup {<<run_dir[1], i_episode>>}
    ELSE traj_files

\* log_episode without the assertion of lines 193-195
log_episode_no_label_assert(i_episode, logging_prefix, episode_success, frames_to_log, sink_ok, io_ok) ==
    LET series == log_success_rates(past_success_rates, logging_prefix,
                                    episode_success)
        lf == IF frames_visualizer
              THEN log_frames(past_frames, i_episode, logging_prefix,
                              frames_to_log)
              ELSE [pf |-> past_frames, keys |-> {}, err |-> "none"]
        to_log == lf.keys \cup SuccessKeys(logging_prefix)
        sink_err == IF ~wandb_logger THEN "none"
                    ELSE IF ~sink_ok THEN "SinkError"
                    ELSE "none"
        save_err == IF ~data_saver THEN "none"
                    ELSE save_episode_err(io_ok)
        err == IF lf.err # "none" THEN lf.err
               ELSE IF sink_err # "none" THEN sink_err
               ELSE save_err
        reached_sink == lf.err = "none" /\ wandb_logger
        declared == reached_sink
        emitted == declared /\ sink_ok
        reached_saver == lf.err = "none" /\ sink_err = "none" /\ data_saver
        saved == reached_saver /\ save_err = "none"
    IN  /\ current_episode' = i_episode
        /\ past_success_rates' = series
        /\ success_stats' = success_to_log(series[logging_prefix])
        /\ past_frames' = lf.pf
        /\ defined' = IF declared THEN defined \cup to_log ELSE defined
        /\ traj_files' = IF reached_saver
                         THEN save_episode_files(i_episode, io_ok)
                         ELSE traj_files
        /\ last_call' = [op |-> "log_episode", label |-> logging_prefix,
                         step |-> i_episode, err |-> err,
                         keys |-> IF err = "none" THEN to_log ELSE {},
                         emitted |-> emitted, save_called |-> reached_saver,
                         saved |-> saved, frame_keys |-> lf.keys,
                         frame_err |-> lf.err,
                         success_rates |-> IF frames_visualizer
                                           THEN series[logging_prefix]
                                           ELSE <<>>,
                         num_episode |-> IF emitted THEN i_episode ELSE 0]
        /\ calls' = [calls EXCEPT ![logging_prefix] =
                       [with_frames |-> @.with_frames /\ frames_to_log = "some",
                        in_order |-> @.in_order /\
                            i_episode = Len(past_success_rates[logging_prefix])]]
        /\ UNCHANGED <<frames_visualizer, data_saver, periodic, run_dir,
                       meta_file, finalizing, n_flushes>>

\* log_episode with the log_frames call of lines 177-183 made before the
\* log_success_rates call of lines 171-175
log_episode_frames_first(i_episode, logging_prefix, episode_success, frames_to_log, sink_ok, io_ok) ==
    LET series == log_success_rates(past_success_rates, logging_prefix,
                                    episode_success)
        lf == IF frames_visualizer
              THEN log_frames(past_frames, i_episode, logging_prefix,
                              frames_to_log)
              ELSE [pf |-> past_frames, keys |-> {}, err |-> "none"]
        to_log == lf.keys \cup SuccessKeys(logging_prefix)
        sink_err == IF ~wandb_logger THEN "none"
                    ELSE IF logging_prefix = NoLabel THEN "AssertionError"
                    ELSE IF ~sink_ok THEN "SinkError"
                    ELSE "none"
        save_err == IF ~data_saver THEN "none"
                    ELSE save_episode_err(io_ok)
        err == IF lf.err # "none" THEN lf.err
               ELSE IF sink_err # "none" THEN sink_err
               ELSE save_err
        reached_sink == lf.err = "none" /\ wandb_logger
        declared == reached_sink /\ logging_prefix # NoLabel
        emitted == declared /\ sink_ok
        reached_saver == lf.err = "none" /\ sink_err = "none" /\ data_saver
        saved == reached_saver /\ save_err = "none"
    IN  /\ current_episode' = i_episode
        /\ past_success_rates' = series
        /\ success_stats' = success_to_log(series[logging_prefix])
        /\ past_frames' = lf.pf
        /\ defined' = IF declared THEN defined \cup to_log ELSE defined
        /\ traj_files' = IF reached_saver
                         THEN save_episode_files(i_episode, io_ok)
                         ELSE traj_files
        /\ last_call' = [op |-> "log_episode", label |-> logging_prefix,
                         step |-> i_episode, err |-> err,
                         keys |-> IF err = "none" THEN to_log ELSE {},
                         emitted |-> emitted, save_called |-> reached_saver,
                         saved |-> saved, frame_keys |-> lf.keys,
                         frame_err |-> lf.err,
                         success_rates |-> IF frames_visualizer
                                           THEN past_success_rates[logging_prefix]
                                           ELSE <<>>,
                         num_episode |-> IF emitted THEN i_episode ELSE 0]
        /\ calls' = [calls EXCEPT ![logging_prefix] =
                       [with_frames |-> @.with_frames /\ frames_to_log = "some",
                        in_order |-> @.in_order /\
                            i_episode = Len(past_success_rates[logging_prefix])]]
        /\ UNCHANGED <<frames_visualizer, data_saver, periodic, run_dir,
                       meta_file, finalizing, n_flushes>>

\* EvalLogger.log_episode
log_episode(i_episode, logging_prefix, episode_success, frames_to_log, sink_ok, io_ok) ==
    LET series == log_success_rates(past_success_rates, logging_prefix,
                                    episode_success)
        lf == IF frames_visualizer
              THEN log_frames(past_frames, i_episode, logging_prefix,
                              frames_to_log)
              ELSE [pf |-> past_frames, keys |-> {}, err |-> "none"]
        to_log == lf.keys \cup SuccessKeys(logging_prefix)
        sink_err == IF ~wandb_logger THEN "none"
                    ELSE IF logging_prefix = NoLabel THEN "AssertionError"
                    ELSE IF ~sink_ok THEN "SinkError"
                    ELSE "none"
        save_err == IF ~data_saver THEN "none"
                    ELSE save_episode_err(io_ok)
        err == IF lf.err # "none" THEN lf.err
               ELSE IF sink_err # "none" THEN sink_err
               ELSE save_err
        reached_sink == lf.err = "none" /\ wandb_logger
        declared == reached_sink /\ logging_prefix # NoLabel
        emitted == declared /\ sink_ok
        reached_saver == lf.err = "none" /\ sink_err = "none" /\ data_saver
        saved == reached_saver /\ save_err = "none"
    IN  /\ current_episode' = i_episode
        /\ past_success_rates' = series
        /\ success_stats' = success_to_log(series[logging_prefix])
        /\ past_frames' = lf.pf
        /\ defined' = IF declared THEN defined \cup to_log ELSE defined
        /\ traj_files' = IF reached_saver
                         THEN save_episode_files(i_episode, io_ok)
                         ELSE traj_files
        /\ last_call' = [op |-> "log_episode", label |-> logging_prefix,
                         step |-> i_episode, err |-> err,
                         keys |-> IF err = "none" THEN to_log ELSE {},
                         emitted |-> emitted, save_called |-> reached_saver,
                         saved |-> saved, frame_keys |-> lf.keys,
                         frame_err |-> lf.err,
                         success_rates |-> IF frames_visualizer
                                           THEN series[logging_prefix]
                                           ELSE <<>>,
                         num_episode |-> IF emitted THEN i_episode ELSE 0]
        /\ calls' = [calls EXCEPT ![logging_prefix] =
                       [with_frames |-> @.with_frames /\ frames_to_log = "some",
                        in_order |-> @.in_order /\
                            i_episode = Len(past_success_rates[logging_prefix])]]
        /\ UNCHANGED <<frames_visualizer, data_saver, periodic, run_dir,
                       meta_file, finalizing, n_flushes>>

\* no log_episode call has been made yet (every call appends to a series)
NoEpisodeYet == \A l \in LabelKeys : past_success_rates[l] = <<>>

\* The labels a caller passes: without a sink None is one more dictionary
\* key, so it is passed only where log_episode treats it differently.
LabelInputs == Labels \cup (IF wandb_logger THEN {NoLabel} ELSE {})

\* A caller's log_episode call, with an episode index up to max_index and
\* an episode_success flag out of successes.
LogEpisode(max_index, successes) ==
    /\ fpc = "idle"
    /\ finalizing = "no"
    /\ \E i \in 0..max_index, l \in LabelInputs, s \in successes,
          f \in (IF frames_visualizer THEN FrameInputs ELSE {"some"}),
          sink_ok \in (IF wandb_logger THEN BOOLEAN ELSE {TRUE}),
          io_ok \in (IF data_saver THEN BOOLEAN ELSE {TRUE}) :
         \* the caller numbers its episodes in increasing order
         /\ NoEpisodeYet \/ i > current_episode
         /\ log_episode(i, l, s, f, sink_ok, io_ok)
    /\ UNCHANGED <<repVars, mirVars>>

\* EvalLogger._visualize_remaining_frames: the flush of the windows, pushed to
\* the sink when there is anything to push.  log_remaining_frames reads the
\* windows and leaves them as they are.
visualize_remaining_frames(sink_ok) ==
    LET flushed == IF frames_visualizer
                   THEN log_remaining_frames(past_frames)
                   ELSE {}
        pushes == flushed # {} /\ wandb_logger
    IN  /\ last_call' = [NoCall EXCEPT
                           !.op = "flush",
                           !.step = current_episode,
                           !.err = IF pushes /\ ~sink_ok THEN "SinkError"
                                   ELSE "none",
                           !.keys = {<<l, "initial_and_final_frames">> :
                                       l \in flushed},
                           !.emitted = pushes /\ sink_ok]
        /\ n_flushes' = IF n_flushes = 0 THEN 1 ELSE 2
        /\ UNCHANGED <<frames_visualizer, data_saver, periodic,
                       past_success_rates, past_frames, current_episode,
                       defined, run_dir, meta_file, traj_files, calls,
                       success_stats>>

VisualizeRemainingFrames ==
    /\ fpc = "idle"
    /\ finalizing = "no"
    /\ \E sink_ok \in (IF wandb_logger THEN BOOLEAN ELSE {TRUE}) :
         visualize_remaining_frames(sink_ok)
    /\ UNCHANGED finalizing
    /\ UNCHANGED <<repVars, mirVars>>

\* ------------------------------------------------------------ the store
Abs(x) == IF x < 0 THEN 0 - x ELSE x

RobotTypeIndex(robot_type) == IF robot_type = "franka" THEN 0 ELSE 1

\* EvalID.create: abs(hash(f"{time}{robot_type}{custom_name}")).  A fixed
\* signed function of the inputs stands for the interpreter's string hash:
\* equal inputs give equal ids, and abs() folds distinct hashes together.
EvalID_create(time, robot_type) ==
    Abs(2 * time + RobotTypeIndex(robot_type) - 1)

\* os.path.exists(metadata_path)
metadata_exists(dir) == meta_file[dir].state # "none"

\* A save_metadata that leaves out lines 48-49 (the os.path.exists test):
\* MetaData.save opens the path with mode "w" whatever is there.
save_metadata_no_exists_test(time, robot_type, io) ==
    IF robot_type \notin RobotTypes
    THEN /\ last_call' = [NoCall EXCEPT !.op = "save_metadata",
                                         !.err = "ValueError:robot_type"]
         /\ UNCHANGED <<run_dir, meta_file>>
    ELSE LET dir == EvalID_create(time, robot_type)
         IN  /\ run_dir' = <<dir>>
             /\ meta_file' =
                  IF io = "open_fails" THEN meta_file
                  ELSE [meta_file EXCEPT ![dir] =
                          [state |-> IF io = "ok" THEN "complete"
                                     ELSE "partial",
                           time |-> time,
                           robot_type |-> robot_type]]
             /\ last_call' = [NoCall EXCEPT
                                !.op = "save_metadata",
                                !.step = dir,
                                !.err = IF io = "ok" THEN "none"
                                        ELSE IF io = "open_fails"
                                        THEN "OSError"
                                        ELSE "TypeError",
                                !.saved = (io = "ok")]

\* LocalStorage.save_metadata (reached through EvalLogger.save_metadata):
\* the eval id and the run directory are set first, then the existence check,
\* then MetaData.save, which can fail at open() or inside json.dump.
save_metadata(time, robot_type, io) ==
    IF robot_type \notin RobotTypes
    THEN \* RobotType(robot_type) raises before anything is assigned
         /\ last_call' = [NoCall EXCEPT !.op = "save_metadata",
                                         !.err = "ValueError:robot_type"]
         /\ UNCHANGED <<run_dir, meta_file>>
    ELSE LET dir == EvalID_create(time, robot_type)
         IN  /\ run_dir' = <<dir>>
             /\ IF metadata_exists(dir)
                THEN /\ last_call' = [NoCall EXCEPT
                                        !.op = "save_metadata",
                                        !.step = dir,
                                        !.err = "ValueError:exists"]
                     /\ UNCHANGED meta_file
                ELSE /\ meta_file' =
                          IF io = "open_fails" THEN meta_file
                          ELSE [meta_file EXCEPT ![dir] =
                                  [state |-> IF io = "ok" THEN "complete"
                                             ELSE "partial",
                                   time |-> time,
                                   robot_type |-> robot_type]]
                     /\ last_call' = [NoCall EXCEPT
                                        !.op = "save_metadata",
                                        !.step = dir,
                                        !.err = IF io = "ok" THEN "none"
                                                ELSE IF io = "open_fails"
                                                THEN "OSError"
                                                ELSE "TypeError",
                                        !.saved = (io = "ok")]

SaveMetadata ==
    /\ fpc = "idle"
    /\ finalizing = "no"
    /\ IF data_saver
       THEN \E time \in 0..MaxStamp, robot_type \in RobotTypes \cup {"other"},
               io \in {"ok", "open_fails", "dump_fails"} :
              save_metadata(time, robot_type, io)
       ELSE /\ last_call' = [NoCall EXCEPT !.op = "save_metadata"]
            /\ UNCHANGED <<run_dir, meta_file>>
    /\ UNCHANGED <<frames_visualizer, data_saver, periodic,
                   past_success_rates, past_frames, current_episode, defined,
                   traj_files, finalizing, n_flushes, calls, success_stats>>
    /\ UNCHANGED <<repVars, mirVars>>

\* ------------------------------------------- the Hugging Face mirror
\* _upload_to_hf(..., max_retries: int = 3)
max_retries == 3

NoUpload == [kind |-> "none", dir |-> 0, index |-> 0]

\* what api.upload_file does: returns, raises one of the four errors
\* _upload_to_hf retries (lines 67-72), or raises something else (line 80)
UploadOutcomes == {"ok", "HfHubHTTPError", "RepositoryNotFoundError",
                   "ConnectionError", "TimeoutError", "Exception"}
Retried == {"HfHubHTTPError", "RepositoryNotFoundError", "ConnectionError",
            "TimeoutError"}

InitMirror ==
    /\ retry_count = 0
    /\ hf_file = NoUpload
    /\ hf_attempts = 0
    /\ slept = <<>>
    /\ upload_success = FALSE
    /\ remote = {}
    /\ hf_result = "none"
    /\ last_outcome = "none"

\* A save call that goes on to _upload_to_hf whether or not the LocalStorage
\* part raised.
hf_begin_unconditional(local_ok, file) ==
    /\ retry_count' = 0
    /\ hf_attempts' = 0
    /\ slept' = <<>>
    /\ upload_success' = FALSE
    /\ last_outcome' = "none"
    /\ hf_file' = file
    /\ hf_result' = "none"
    /\ fpc' = "hf_loop"
    /\ UNCHANGED remote
    /\ UNCHANGED <<wandb_logger, interval_configured, total_steps,
                   steps_since_last_log, time_elapsed, last_log_time,
                   time_logging, time_logging_thread, rpc, r_time, r_steps,
                   r_minutes, f_tmp, f_join, now, n_emits, emitted_sum,
                   last_emit, stop_result, stop_timed_out, n_stops>>

\* What a save call through HuggingFaceStorage does after the LocalStorage
\* part: a call whose local part raised is over; otherwise _upload_to_hf
\* starts (line 55: retry_count = 0) in the caller's thread.
hf_begin(local_ok, file) ==
    /\ retry_count' = 0
    /\ hf_attempts' = 0
    /\ slept' = <<>>
    /\ upload_success' = FALSE
    /\ last_outcome' = "none"
    /\ hf_file' = IF local_ok THEN file ELSE NoUpload
    /\ hf_result' = IF local_ok THEN "none" ELSE "raised"
    /\ fpc' = IF local_ok THEN "hf_loop" ELSE "idle"
    /\ UNCHANGED remote
    /\ UNCHANGED <<wandb_logger, interval_configured, total_steps,
                   steps_since_last_log, time_elapsed, last_log_time,
                   time_logging, time_logging_thread, rpc, r_time, r_steps,
                   r_minutes, f_tmp, f_join, now, n_emits, emitted_sum,
                   last_emit, stop_result, stop_timed_out, n_stops>>

\* EvalLogger.log_episode with a HuggingFaceStorage data saver:
\* HuggingFaceStorage.save_episode, lines 136-160
HF_LogEpisode(max_index, successes) ==
    /\ fpc = "idle"
    /\ finalizing = "no"
    /\ data_saver
    /\ \E i \in 0..max_index, l \in LabelInputs, s \in successes,
          sink_ok \in (IF wandb_logger THEN BOOLEAN ELSE {TRUE}),
          io_ok \in BOOLEAN :
         /\ NoEpisodeYet \/ i > current_episode
         /\ log_episode(i, l, s, "some", sink_ok, io_ok)
         /\ hf_begin(last_call'.saved,
                     [kind |-> "traj",
                      dir |-> IF run_dir = <<>> THEN 0 ELSE run_dir[1],
                      index |-> i])

\* EvalLogger.save_metadata with a HuggingFaceStorage data saver:
\* HuggingFaceStorage.save_metadata, lines 98-110
HF_SaveMetadata ==
    /\ fpc = "idle"
    /\ finalizing = "no"
    /\ data_saver
    /\ \E time \in 0..MaxStamp, robot_type \in RobotTypes \cup {"other"},
          io \in {"ok", "open_fails", "dump_fails"} :
         /\ save_metadata(time, robot_type, io)
         /\ hf_begin(last_call'.saved,
                     [kind |-> "metadata", dir |-> last_call'.step,
                      index |-> 0])
    /\ UNCHANGED <<frames_visualizer, data_saver, periodic,
                   past_success_rates, past_frames, current_episode, defined,
                   traj_files, finalizing, n_flushes, calls, success_stats>>

\* What the steps inside _upload_to_hf leave alone.
UploadFrame ==
    UNCHANGED <<wandb_logger, interval_configured, total_steps,
                steps_since_last_log, time_elapsed, last_log_time,
                time_logging, time_logging_thread, rpc, r_time, r_steps,
                r_minutes, f_tmp, f_join, now, n_emits, emitted_sum,
                last_emit, stop_result, stop_timed_out, n_stops, epVars,
                hf_file>>

\* line 56: while retry_count < max_retries; lines 84-87 after the loop
HF_Loop ==
    /\ fpc = "hf_loop"
    /\ IF retry_count < max_retries
       THEN fpc' = "hf_attempt" /\ UNCHANGED upload_success
       ELSE fpc' = "hf_return" /\ upload_success' = FALSE
    /\ UNCHANGED <<retry_count, hf_attempts, slept, remote, hf_result,
                   last_outcome>>
    /\ UploadFrame

\* An attempt without the catch-all handler of lines 80-82: an exception
\* outside the four retried ones leaves _upload_to_hf and the save call.
HF_Attempt_no_catch_all ==
    /\ fpc = "hf_attempt"
    /\ hf_attempts' = hf_attempts + 1
    /\ \E outcome \in UploadOutcomes :
         /\ last_outcome' = outcome
         /\ IF outcome = "ok"
            THEN /\ remote' = remote \cup {hf_file}
                 /\ upload_success' = TRUE
                 /\ fpc' = "hf_return"
                 /\ UNCHANGED <<retry_count, hf_result>>
            ELSE IF outcome \in Retried
            THEN /\ retry_count' = retry_count + 1
                 /\ fpc' = "hf_sleep"
                 /\ UNCHANGED <<remote, upload_success, hf_result>>
            ELSE /\ hf_result' = "raised"
                 /\ fpc' = "idle"
                 /\ UNCHANGED <<remote, retry_count, upload_success>>
    /\ UNCHANGED slept
    /\ UploadFrame

\* lines 57-82: one api.upload_file call and the handler it ends in
HF_Attempt ==
    /\ fpc = "hf_attempt"
    /\ hf_attempts' = hf_attempts + 1
    /\ \E outcome \in UploadOutcomes :
         /\ last_outcome' = outcome
         /\ IF outcome = "ok"
            THEN /\ remote' = remote \cup {hf_file}
                 /\ upload_success' = TRUE
                 /\ fpc' = "hf_return"
                 /\ UNCHANGED retry_count
            ELSE IF outcome \in Retried
            THEN /\ retry_count' = retry_count + 1
                 /\ fpc' = "hf_sleep"
                 /\ UNCHANGED <<remote, upload_success>>
            ELSE /\ upload_success' = FALSE
                 /\ fpc' = "hf_return"
                 /\ UNCHANGED <<remote, retry_count>>
    /\ UNCHANGED <<slept, hf_result>>
    /\ UploadFrame

\* lines 74 and 79: wait_time = 2**retry_count; time.sleep(wait_time)
HF_Sleep ==
    /\ fpc = "hf_sleep"
    /\ slept' = Append(slept, 2 ^ retry_count)
    /\ fpc' = "hf_loop"
    /\ UNCHANGED <<retry_count, hf_attempts, upload_success, remote,
                   hf_result, last_outcome>>
    /\ UploadFrame

\* save_episode line 167, save_metadata line 117: the call returns
HF_Return ==
    /\ fpc = "hf_return"
    /\ hf_result' = "returned"
    /\ fpc' = "idle"
    /\ UNCHANGED <<retry_count, hf_attempts, slept, upload_success, remote,
                   last_outcome>>
    /\ UploadFrame

\* ------------------------------------------------------------- teardown
\* EvalLogger.__del__, lines 80-85: _visualize_remaining_frames, then
\* stop_time_logging; an exception of the first skips the second
\* (lines 86-88).
Del_Flush ==
    /\ fpc = "idle"
    /\ finalizing = "no"
    /\ \E sink_ok \in (IF wandb_logger THEN BOOLEAN ELSE {TRUE}) :
         visualize_remaining_frames(sink_ok)
    /\ IF last_call'.err # "none"
       THEN /\ finalizing' = "done"
            /\ UNCHANGED <<fpc, stop_result, stop_timed_out>>
       ELSE /\ finalizing' = "yes"
            /\ fpc' = "st_check1"
            /\ stop_result' = "none"
            /\ stop_timed_out' = FALSE
    /\ UNCHANGED <<wandb_logger, interval_configured, total_steps,
                   steps_since_last_log, time_elapsed, last_log_time,
                   time_logging, time_logging_thread, rpc, r_time, r_steps,
                   r_minutes, f_tmp, f_join, now, n_emits, emitted_sum,
                   last_emit, n_stops>>
    /\ UNCHANGED mirVars

\* __del__ returns once stop_time_logging has returned or raised
Del_End ==
    /\ fpc = "idle"
    /\ finalizing = "yes"
    /\ finalizing' = "done"
    /\ UNCHANGED <<frames_visualizer, data_saver, periodic,
                   past_success_rates, past_frames, current_episode, defined,
                   run_dir, meta_file, traj_files, last_call, n_flushes,
                   calls, success_stats>>
    /\ UNCHANGED <<repVars, mirVars>>

\* ------------------------------------------- specification: the pipeline
\* The logger of examples/manipulator_eval.py has no reporting interval
\* (line 82); the sink, the visualizer and the saver are given or not.
Init ==
    /\ \E w \in BOOLEAN : InitReporter(w, FALSE)
    /\ \E v \in BOOLEAN, p \in BOOLEAN : InitEpisode(v, FALSE, p)
    /\ InitMirror

Next ==
    \/ LogEpisode(MaxEpisodeIndex, {0, 1})
    \/ VisualizeRemainingFrames

Spec == Init /\ [][Next]_vars

\* ---------------------------------------------- specification: the window
\* Enough episodes for two full windows, visualizer with periodic
\* visualization on, no sink; the success flag, which log_frames does not
\* read, is 1 throughout.
InitWindow ==
    /\ InitReporter(FALSE, FALSE)
    /\ InitEpisode(TRUE, FALSE, TRUE)
    /\ InitMirror

NextWindow == LogEpisode(MaxWindowIndex, {1})

SpecWindow == InitWindow /\ [][NextWindow]_vars

\* ----------------------------------------------- specification: the store
\* A logger with a data saver (LocalStorage) and no visualizer; the success
\* flag, which the store does not read, is 1 throughout.
InitStore ==
    /\ \E w \in BOOLEAN : InitReporter(w, FALSE)
    /\ InitEpisode(FALSE, TRUE, TRUE)
    /\ InitMirror

NextStore ==
    \/ LogEpisode(MaxStoreIndex, {1})
    \/ SaveMetadata

SpecStore == InitStore /\ [][NextStore]_vars

\* log_episode with a frame visualizer only, its periodic visualization on
\* or off.
InitBuffer ==
    /\ InitReporter(FALSE, FALSE)
    /\ \E p \in BOOLEAN : InitEpisode(TRUE, FALSE, p)
    /\ InitMirror

NextBuffer == LogEpisode(MaxEpisodeIndex, {1})

SpecBuffer == InitBuffer /\ [][NextBuffer]_vars

\* log_episode with the sink, the frame visualizer and the saver all
\* configured; save_metadata is never called, so save_episode is called and
\* raises for want of a run directory.
InitSequence ==
    /\ InitReporter(TRUE, FALSE)
    /\ InitEpisode(TRUE, TRUE, TRUE)
    /\ InitMirror

NextSequence == LogEpisode(MaxSequenceIndex, {0, 1})

SpecSequence == InitSequence /\ [][NextSequence]_vars

\* ------------------------------------------------ specification: reporter
Reporter ==
    \E t \in Threads :
        \/ R_Loop(t)
        \/ R_Begin(t)
        \/ R_Log(t)
        \/ R_Reset(t)
        \/ R_Wait(t)
        \/ R_Exit(t)

StopTimeLogging ==
    \/ F_StopCall
    \/ F_StopCheckNone
    \/ F_StopCheckAlive
    \/ F_StopSet
    \/ F_StopCompare
    \/ F_StopJoinBegin
    \/ F_StopJoinEnd
    \/ F_StopClear

LogStep ==
    \/ F_LogStepInc
    \/ F_LogStepLoad
    \/ F_LogStepStore

InitRep ==
    /\ \E w \in BOOLEAN, i \in BOOLEAN : InitReporter(w, i)
    /\ InitEpisode(FALSE, FALSE, TRUE)
    /\ InitMirror

NextRep ==
    \/ Reporter
    \/ LogStep
    \/ StopTimeLogging
    \/ Tick

SpecReporter == InitRep /\ [][NextRep]_vars

\* The reporter beside stop_time_logging calls, with a scheduler that lets
\* a reporter thread that can take a step take one in the end.
InitInterrupt ==
    /\ InitReporter(TRUE, TRUE)
    /\ InitEpisode(FALSE, FALSE, TRUE)
    /\ InitMirror

NextInterrupt ==
    \/ Reporter
    \/ StopTimeLogging
    \/ Tick

ReporterThread(t) ==
    R_Loop(t) \/ R_Begin(t) \/ R_Log(t) \/ R_Reset(t) \/ R_Wait(t) \/ R_Exit(t)

SpecInterrupt ==
    /\ InitInterrupt
    /\ [][NextInterrupt]_vars
    /\ \A t \in Threads : WF_vars(ReporterThread(t))

StartTimeLogging ==
    \/ F_StartCall
    \/ F_StartCheck
    \/ F_StartClear
    \/ F_StartNew
    \/ F_StartStart

\* The reporter beside sequences of _start_time_logging_thread and
\* stop_time_logging calls.
InitRestart ==
    /\ \E w \in BOOLEAN, i \in BOOLEAN : InitReporter(w, i)
    /\ InitEpisode(FALSE, FALSE, TRUE)
    /\ InitMirror

NextRestart ==
    \/ Reporter
    \/ StartTimeLogging
    \/ StopTimeLogging

SpecRestart == InitRestart /\ [][NextRestart]_vars

\* The reporter with a running clock, and a second reporter thread started
\* after the first one has ended: log_time_related_stats is called again
\* after a call of it has failed.
InitElapsed ==
    /\ InitReporter(TRUE, TRUE)
    /\ InitEpisode(FALSE, FALSE, TRUE)
    /\ InitMirror

NextElapsed ==
    \/ Reporter
    \/ StartTimeLogging
    \/ Tick

SpecElapsed == InitElapsed /\ [][NextElapsed]_vars

\* The reporter beside log_step and log_episode calls, never stopped: the
\* reporter can only end by a sink error.
InitFailure ==
    /\ InitReporter(TRUE, TRUE)
    /\ InitEpisode(FALSE, FALSE, TRUE)
    /\ InitMirror

NextFailure ==
    \/ Reporter
    \/ LogStep
    \/ LogEpisode(MaxFailureIndex, {1})
    \/ Tick

SpecFailure == InitFailure /\ [][NextFailure]_vars

\* ------------------------------------------------ specification: teardown
\* A logger with a sink, a reporting interval and a visualizer: episodes,
\* explicit stop_time_logging calls, the reporter thread, and __del__.
InitTeardown ==
    /\ InitReporter(TRUE, TRUE)
    /\ InitEpisode(TRUE, FALSE, TRUE)
    /\ InitMirror

NextTeardown ==
    \/ LogEpisode(MaxTeardownIndex, {0, 1})
    \/ StopTimeLogging
    \/ Reporter
    \/ Del_Flush
    \/ Del_End

SpecTeardown == InitTeardown /\ [][NextTeardown]_vars

\* -------------------------------------------------- specification: mirror
\* A logger whose data saver is a HuggingFaceStorage, as in
\* examples/manipulator_eval.py (lines 72-75); the success flag, which the
\* storage does not read, is 1 throughout, and there is no sink.
InitMirrorSpec ==
    /\ InitReporter(FALSE, FALSE)
    /\ InitEpisode(FALSE, TRUE, TRUE)
    /\ InitMirror

Upload ==
    \/ HF_Loop
    \/ HF_Attempt
    \/ HF_Sleep
    \/ HF_Return

NextMirror ==
    \/ HF_LogEpisode(MaxMirrorIndex, {1})
    \/ HF_SaveMetadata
    \/ Upload

SpecMirror == InitMirrorSpec /\ [][NextMirror]_vars

\* ------------------------------------------------- specification: tracker
\* EvalLogger.log_success_rates called directly, flag after flag, under the
\* label "a".
LogSuccessRates ==
    /\ fpc = "idle"
    /\ finalizing = "no"
    /\ Len(past_success_rates["a"]) < MaxFlags
    /\ \E episode_success \in {0, 1} :
         /\ episode_success = 0
              => Len(past_success_rates["a"]) - Sum(past_success_rates["a"])
                   < MaxFailures
         /\ past_success_rates' =
              log_success_rates(past_success_rates, "a", episode_success)
         /\ success_stats' =
              success_to_log(Append(past_success_rates["a"], episode_success))
    /\ UNCHANGED <<frames_visualizer, data_saver, periodic, past_frames,
                   current_episode, defined, run_dir, meta_file, traj_files,
                   last_call, finalizing, n_flushes, calls>>
    /\ UNCHANGED <<repVars, mirVars>>

InitTracker ==
    /\ InitReporter(FALSE, FALSE)
    /\ InitEpisode(FALSE, FALSE, TRUE)
    /\ InitMirror

NextTracker == LogSuccessRates

SpecTracker == InitTracker /\ [][NextTracker]_vars

\* ================================================================ properties
\* ---- SpecReporter

\* C1: the reporter's read-and-reset of steps_since_last_log is atomic with
\* respect to log_step: whenever no log_step call and no reporter wake is in
\* progress, the step counts of all emitted records plus the current
\* steps_since_last_log equal total_steps (no step lost, none counted twice).
C1_NoStepLostOrDoubled ==
    (fpc = "idle" /\ \A t \in Threads : rpc[t] \notin {"log", "reset"})
        => emitted_sum + steps_since_last_log = total_steps

\* C2: stop_time_logging returns normally in every interleaving with the
\* background loop: on a logger built with a sink, no call raises.
C2_StopNeverRaises ==
    wandb_logger => stop_result # "raised"

\* C3: once stop_time_logging, called from the foreground, has returned, the
\* reporter pushes no further step-stats record to the sink.
C3_NoEmitAfterStopReturned ==
    [][stop_result = "returned" => n_emits' = n_emits]_vars

\* ---- SpecStore

\* C4: every log_episode call with a data saver and a label calls
\* save_episode, whether or not the push to the sink raised.
C4_SaveCalledDespiteSinkFailure ==
    (/\ last_call.op = "log_episode"
     /\ data_saver
     /\ last_call.label # NoLabel
     /\ last_call.frame_err = "none")
        => last_call.save_called

\* C5: a traj_{i} file exists in a run directory only if metadata.json was
\* written completely in that directory.
C5_MetadataBeforeEpisodes ==
    \A f \in traj_files : meta_file[f[1]].state = "complete"

\* C6: metadata is write-once: a save_metadata call that finds metadata.json
\* in its run directory raises the already-exists ValueError, and no step
\* changes a metadata.json that exists.
C6_MetadataWriteOnce ==
    [][/\ \A d \in Dirs : metadata_exists(d) => meta_file'[d] = meta_file[d]
       /\ (/\ last_call'.op = "save_metadata"
           /\ last_call'.err # "ValueError:robot_type"
           /\ metadata_exists(last_call'.step))
            => last_call'.err = "ValueError:exists"]_vars

\* a second save_metadata for a directory whose metadata.json is complete
\* has been refused
C6_SecondWriteRefused ==
    /\ last_call.op = "save_metadata"
    /\ last_call.err = "ValueError:exists"
    /\ meta_file[last_call.step].state = "complete"

\* ---- SpecWindow

WindowedKey(l) == <<l, "initial_and_final_frames">>

\* C7: with periodic visualization on and W = success_viz_every_n, when the
\* k-th log_episode call under a label carries step k-1 and every call
\* carries a non-empty frame list, log_frames returns the windowed artifact
\* on the calls with k a multiple of W (the W-th, the 2W-th) and on no other,
\* never raises, and leaves the window empty after those calls and holding
\* k mod W entries after the others.
C7_WindowFlushInOrder ==
    \A l \in LabelKeys :
        (/\ last_call.op = "log_episode"
         /\ last_call.label = l
         /\ calls[l].with_frames
         /\ calls[l].in_order)
            => LET k == Len(past_success_rates[l])
               IN  /\ last_call.frame_err = "none"
                   /\ WindowedKey(l) \in last_call.frame_keys
                        <=> k % success_viz_every_n = 0
                   /\ Len(past_frames[l]) = k % success_viz_every_n

\* the 2W-th call of such a run under label "a" has returned the windowed
\* artifact
C7_SecondWindowFlushed ==
    /\ last_call.op = "log_episode"
    /\ last_call.label = "a"
    /\ calls["a"].with_frames
    /\ calls["a"].in_order
    /\ Len(past_success_rates["a"]) = 2 * success_viz_every_n
    /\ WindowedKey("a") \in last_call.frame_keys
    /\ past_frames["a"] = <<>>

\* C7 as the specification states it, by the count of calls alone: after k
\* calls with frames under a label, whatever steps they carried, the
\* windowed artifact is returned exactly when k is a multiple of W, and the
\* window is empty then.
C7_WindowFlushByCount ==
    \A l \in LabelKeys :
        (/\ last_call.op = "log_episode"
         /\ last_call.label = l
         /\ calls[l].with_frames)
            => LET k == Len(past_success_rates[l])
               IN  /\ last_call.frame_err = "none"
                   /\ WindowedKey(l) \in last_call.frame_keys
                        <=> k % success_viz_every_n = 0
                   /\ k % success_viz_every_n = 0 => past_frames[l] = <<>>

\* ---- Spec

\* C8: when the flush of the remaining frames returns, every label's window
\* is empty, and the labels that got an artifact are those whose window was
\* non-empty.
C8_FlushEmptiesWindows ==
    last_call.op = "flush" => \A l \in LabelKeys : past_frames[l] = <<>>

\* ---- SpecTeardown

\* C9: on every teardown path the remaining frame windows are flushed to the
\* sink before the reporter is stopped: when the stop event gets set, either
\* _visualize_remaining_frames has run or no window had anything to flush.
C9_FlushBeforeStop ==
    [][(~time_logging /\ time_logging')
         => (n_flushes >= 1 \/ log_remaining_frames(past_frames) = {})]_vars

\* ---- SpecMirror

\* C10: a save call through HuggingFaceStorage returns after the local write
\* without waiting for the upload: when it returns, no upload attempt and no
\* backoff sleep has run inside the call.
C10_SaveReturnsBeforeUpload ==
    hf_result = "returned" => (hf_attempts = 0 /\ slept = <<>>)

\* the positions of the foreground inside _upload_to_hf
UploadPcs == {"hf_loop", "hf_attempt", "hf_sleep", "hf_return"}

\* the file a save call wrote is on the local disk, complete
LocalPresent(file) ==
    \/ file.kind = "traj" /\ <<file.dir, file.index>> \in traj_files
    \/ file.kind = "metadata" /\ meta_file[file.dir].state = "complete"

\* C11: a remote failure never reaches the caller and never undoes local
\* data: no step inside _upload_to_hf changes the local files; a save call
\* raises only when no upload attempt was made; a call that returns has its
\* local file in place, and after max_retries failed attempts the flag
\* _upload_to_hf returned is False.
C11_RemoteFailureInvisible ==
    [][/\ fpc \in UploadPcs => UNCHANGED <<meta_file, traj_files, run_dir>>
       /\ hf_result' = "raised" => hf_attempts' = 0
       /\ hf_result' = "returned"
            => /\ LocalPresent(hf_file')
               /\ retry_count' = max_retries => ~upload_success']_vars

\* a save_episode call has returned after max_retries failed uploads, its
\* traj file still on the local disk
C11_ExhaustedAndReturned ==
    /\ hf_result = "returned"
    /\ hf_file.kind = "traj"
    /\ retry_count = max_retries
    /\ ~upload_success
    /\ LocalPresent(hf_file)
    /\ hf_file \notin remote

\* C12: no upload is attempted before the local write has succeeded: while
\* the foreground is inside _upload_to_hf, and whenever an attempt has been
\* made in the current call, the file of the call is on the local disk; and
\* every file in the repository is on the local disk.
C12_LocalWriteBeforeUpload ==
    /\ (fpc \in UploadPcs \/ hf_attempts > 0) => LocalPresent(hf_file)
    /\ \A f \in remote : LocalPresent(f)

\* a metadata.json is in the repository, and a later save call whose local
\* part raised made no attempt
C12_FailedLocalNoUpload ==
    /\ hf_result = "raised"
    /\ hf_attempts = 0
    /\ hf_file = NoUpload
    /\ \E f \in remote : f.kind = "metadata"

\* C13: the retry policy of _upload_to_hf: at most max_retries attempts in a
\* save call; no attempt after a successful one; the backoff sleeps are 2, 4,
\* ... seconds, doubling; and a sleep is taken only when another attempt
\* follows, so that a finished _upload_to_hf has slept fewer times than it
\* has attempted.
C13_RetryPolicy ==
    /\ hf_attempts <= max_retries
    /\ upload_success => fpc \notin {"hf_loop", "hf_attempt", "hf_sleep"}
    /\ \A i \in 1..Len(slept) : slept[i] = 2 ^ i
    /\ fpc = "hf_return" => Len(slept) < hf_attempts

\* the failures the specification classifies as not transient: the
\* repository is not found, or an unexpected exception
NonTransient == {"RepositoryNotFoundError", "Exception"}

\* C14: a non-transient upload failure fails fast: after it _upload_to_hf
\* neither sleeps nor attempts again, and returns the failure flag.
C14_NonTransientFailsFast ==
    last_outcome \in NonTransient
        => /\ fpc \notin {"hf_sleep", "hf_loop", "hf_attempt"}
           /\ ~upload_success

\* ---- SpecTracker

Abs2(x) == IF x < 0 THEN 0 - x ELSE x

\* value, in units of 1e-4, is num / den rounded to 4 decimals
IsRounded(value, num, den) == 2 * Abs2(value * den - RateScale * num) <= den

\* C15: after N flags under a label, log_success_rates returns the N-th flag
\* as episode_success, the count of true flags as cumulative_num_success,
\* and as recent_success_rate and overall_success_rate the mean of the last
\* min(20, N) flags and of all N flags, each rounded to 4 decimals.
C15_TrackerRounded ==
    LET flags == past_success_rates["a"]
        N == Len(flags)
        n == IF N < recent_window THEN N ELSE recent_window
        recent == SubSeq(flags, N - n + 1, N)
    IN  N > 0 =>
          /\ success_stats.episode_success = flags[N]
          /\ success_stats.cumulative_num_success
               = Cardinality({i \in 1..N : flags[i] = 1})
          /\ IsRounded(success_stats.recent_success_rate,
                       Cardinality({i \in 1..n : recent[i] = 1}), n)
          /\ IsRounded(success_stats.overall_success_rate,
                       Cardinality({i \in 1..N : flags[i] = 1}), N)

\* more than twenty flags, a failure older than the last twenty: the recent
\* rate is 1 and the overall rate is a rounded value below it
C15_WindowAndRounding ==
    /\ Len(past_success_rates["a"]) > recent_window
    /\ past_success_rates["a"][1] = 0
    /\ success_stats.recent_success_rate = RateScale
    /\ success_stats.overall_success_rate < RateScale
    /\ success_stats.overall_success_rate * Len(past_success_rates["a"])
         # RateScale * Sum(past_success_rates["a"])

\* C15 as stated, without rounding: the two rates are the exact means.
C15_TrackerExactMeans ==
    LET flags == past_success_rates["a"]
        N == Len(flags)
        n == IF N < recent_window THEN N ELSE recent_window
    IN  N > 0 =>
          /\ success_stats.cumulative_num_success = Sum(flags)
          /\ success_stats.recent_success_rate * n
               = RateScale * Sum(LastN(flags, n))
          /\ success_stats.overall_success_rate * N = RateScale * Sum(flags)

\* ---- SpecStore, the success series

\* C16: the success series of a label counts the completed episodes of the
\* label: a series only grows, by one flag at its end, and only in a
\* log_episode call under that label that returned without an error (the
\* sink push and the persistence done).
C16_SeriesCountsCompleted ==
    [][\A l \in LabelKeys :
         /\ Len(past_success_rates'[l]) >= Len(past_success_rates[l])
         /\ SubSeq(past_success_rates'[l], 1, Len(past_success_rates[l]))
              = past_success_rates[l]
         /\ Len(past_success_rates'[l]) > Len(past_success_rates[l])
              => /\ Len(past_success_rates'[l])
                      = Len(past_success_rates[l]) + 1
                 /\ last_call'.op = "log_episode"
                 /\ last_call'.label = l
                 /\ last_call'.err = "none"]_vars

\* ---- SpecFailure, a sink error in the reporter

ReporterFailed == \E t \in Threads : rpc[t] \in {"break", "failed"}

\* C17: once the sink has raised in a periodic emission the reporter ends:
\* it pushes nothing more, its only step is the one that clears the handle
\* and ends the thread, and it stays ended; log_step still counts each call once in both
\* counters, and a log_episode call still updates the tracker and reaches
\* the sink, its outcome being that of its own inputs.
C17_FailedReporterEndsForegroundGoesOn ==
    [][ReporterFailed =>
         /\ \A t \in Threads :
              /\ rpc[t] = "break" => rpc'[t] \in {"break", "failed"}
              /\ rpc[t] = "failed" => rpc'[t] = "failed"
              /\ rpc'[t] = "failed" => time_logging_thread' = 0
         /\ UNCHANGED <<n_emits, emitted_sum, last_emit, time_elapsed,
                        last_log_time>>
         /\ steps_since_last_log' >= steps_since_last_log
         /\ (fpc = "idle" /\ fpc' = "ls_load")
              => total_steps' = total_steps + 1
         /\ (fpc = "ls_load" /\ fpc' = "ls_store")
              => f_tmp' = steps_since_last_log
         /\ (fpc = "ls_store" /\ fpc' = "idle")
              => steps_since_last_log' = f_tmp + 1
         /\ last_call' # last_call
              => /\ last_call'.op = "log_episode"
                 /\ current_episode' = last_call'.step
                 /\ Len(past_success_rates'[last_call'.label])
                      = Len(past_success_rates[last_call'.label]) + 1
                 /\ last_call'.emitted
                      <=> (last_call'.err = "none"
                             /\ last_call'.label # NoLabel)
                 /\ last_call'.err \in {"none", "AssertionError",
                                        "SinkError"}
                 /\ UNCHANGED <<rpc, total_steps, steps_since_last_log>>
       ]_vars

\* the reporter has ended by a sink error, and afterwards a log_step call
\* has been counted and a log_episode call has reached the sink
C17_ForegroundAfterFailure ==
    /\ \E t \in Threads : rpc[t] = "failed"
    /\ \A t \in Threads : ~is_alive(t)
    /\ time_logging_thread = 0
    /\ fpc = "idle"
    /\ total_steps = MaxSteps
    /\ steps_since_last_log = MaxSteps
    /\ last_call.op = "log_episode"
    /\ last_call.emitted

\* ---- SpecStore, a log_episode call without a label

\* the call before this one was a log_episode call without a label that
\* raised
AbortedNoLabelCall ==
    /\ last_call.op = "log_episode"
    /\ last_call.label = NoLabel
    /\ last_call.err = "AssertionError"

\* C18: with a sink, a log_episode call whose label is None raises an
\* AssertionError to its caller, pushes and declares nothing, does not call
\* the saver and leaves the files as they are; a call with a label made
\* right after it is not hit by that error: it reaches the sink, and it
\* reaches the saver unless the sink raises.
C18_NoLabelAbortsOnlyThatCall ==
    [][(wandb_logger /\ last_call' # last_call
                     /\ last_call'.op = "log_episode") =>
         /\ last_call'.label = NoLabel
              => /\ last_call'.err = "AssertionError"
                 /\ ~last_call'.emitted
                 /\ ~last_call'.save_called
                 /\ last_call'.keys = {}
                 /\ UNCHANGED <<defined, traj_files, meta_file, run_dir>>
         /\ (AbortedNoLabelCall /\ last_call'.label # NoLabel)
              => /\ last_call'.err # "AssertionError"
                 /\ last_call'.emitted <=> last_call'.err # "SinkError"
                 /\ last_call'.save_called <=> last_call'.err # "SinkError"
                 /\ last_call'.saved <=> last_call'.err = "none"
                 /\ Len(past_success_rates'[last_call'.label])
                      = Len(past_success_rates[last_call'.label]) + 1
       ]_vars

\* after a call without a label has aborted, a call with a label has been
\* pushed to the sink and persisted
C18_ValidCallAfterAbort ==
    /\ wandb_logger
    /\ past_success_rates[NoLabel] # <<>>
    /\ last_call.op = "log_episode"
    /\ last_call.label \in Labels
    /\ last_call.err = "none"
    /\ last_call.emitted
    /\ last_call.saved
    /\ traj_files = {<<run_dir[1], last_call.step>>}

\* ---- SpecWindow, a window with entries that have no frames

\* C19: when the trigger of the windowed visualization fires in a
\* log_episode call (frames were passed, (step + 1) % W = 0, periodic
\* visualization on) and the window of the label, the entry of this call
\* included, holds fewer than W entries with frames, log_frames raises and
\* no windowed visualization is among the keys.  (A call that raised
\* returned no keys: the entry of the call then counts as one without
\* frames, and the call has raised as the claim asks.)
C19_PartialWindowFailsLoudly ==
    [][(frames_visualizer /\ periodic /\ last_call' # last_call
                          /\ last_call'.op = "log_episode") =>
         LET l == last_call'.label
             supplied == past_frames'[l] # past_frames[l]
             data == [step |-> last_call'.step,
                      frames |-> <<l, "frames">> \in last_call'.frame_keys]
             window == deque_append(past_frames[l], data,
                                    success_viz_every_n)
             fired == /\ supplied
                      /\ (last_call'.step + 1) % success_viz_every_n = 0
         IN  (fired /\ Len(NonNull(window)) < success_viz_every_n)
               => /\ last_call'.frame_err # "none"
                  /\ WindowedKey(l) \notin last_call'.frame_keys
       ]_vars

\* ---- SpecSequence, the order of the steps of log_episode

\* C20: in a log_episode call the tracker is updated first, so the series
\* handed to log_frames is the series of the label with the flag of this
\* episode at its end; the sink is reached only after log_frames has
\* returned, and the record pushed holds the frame keys and the success
\* keys with the episode index as "num_episode"; the saver is called only
\* after the push has returned, so a failing saver leaves a pushed record.
C20_TrackerFramesSinkSaver ==
    [][(last_call' # last_call /\ last_call'.op = "log_episode") =>
         LET l == last_call'.label
         IN  /\ current_episode' = last_call'.step
             /\ Len(past_success_rates'[l]) = Len(past_success_rates[l]) + 1
             /\ success_stats'.episode_success
                  = past_success_rates'[l][Len(past_success_rates'[l])]
             /\ frames_visualizer
                  => last_call'.success_rates = past_success_rates'[l]
             /\ last_call'.frame_err # "none"
                  => /\ ~last_call'.emitted
                     /\ ~last_call'.save_called
                     /\ defined' = defined
             /\ last_call'.emitted
                  => /\ last_call'.frame_err = "none"
                     /\ last_call'.num_episode = last_call'.step
                     /\ (last_call'.frame_keys \cup SuccessKeys(l))
                          \subseteq defined'
             /\ last_call'.save_called
                  => /\ last_call'.emitted
                     /\ last_call'.err \in {"none", "AttributeError",
                                            "OSError"}
             /\ last_call'.err = "none"
                  => last_call'.keys
                       = last_call'.frame_keys \cup SuccessKeys(l)
       ]_vars

\* a call whose windowed visualization was drawn with the flag of its own
\* episode and pushed with its episode index, and that then called the
\* saver, which raised
C20_WindowDrawnPushedThenSaver ==
    /\ last_call.op = "log_episode"
    /\ WindowedKey(last_call.label) \in last_call.frame_keys
    /\ last_call.success_rates = <<1, 0>>
    /\ last_call.emitted
    /\ last_call.num_episode = 1
    /\ last_call.save_called
    /\ last_call.err = "AttributeError"

\* ---- SpecRestart, the life of a reporter thread

\* the state after __init__: the reporter runs exactly when a sink and an
\* interval were both given
ConstructionStart ==
    /\ \A t \in Threads :
         is_alive(t) <=> (wandb_logger /\ interval_configured /\ t = 1)
    /\ time_logging_thread
         = IF wandb_logger /\ interval_configured THEN 1 ELSE 0

\* C21, as the code has it: a reporter thread starts running at
\* construction exactly when a sink and an interval are configured, and
\* otherwise only in the last step of a _start_time_logging_thread call
\* (which needs a sink and does not look at the interval); it stops
\* running by leaving its loop after a stop request has set the event, by
\* a sink error in an emission, or by the failing wait when no interval is
\* configured.
C21_ReporterLifecycle ==
    /\ ConstructionStart
    /\ [][\A t \in Threads :
            /\ (~is_alive(t) /\ is_alive(t)')
                 => /\ fpc = "sp_start"
                    /\ wandb_logger
                    /\ time_logging_thread = t
            /\ (is_alive(t) /\ ~is_alive(t)')
                 => \/ rpc[t] = "exit" /\ rpc'[t] = "dead"
                    \/ rpc[t] = "break" /\ rpc'[t] = "failed"
                    \/ /\ rpc[t] = "wait" /\ rpc'[t] = "crashed"
                       /\ ~interval_configured
            /\ (rpc[t] # "exit" /\ rpc'[t] = "exit") => time_logging
            /\ (rpc[t] # "break" /\ rpc'[t] = "break") => rpc[t] = "log"
         ]_vars

\* a reporter has ended by a sink error and a start request has a second
\* one running
C21_RestartedAfterFailure ==
    /\ rpc[1] = "failed"
    /\ is_alive(2)
    /\ time_logging_thread = 2

\* C21, as stated: the reporter is started at construction whenever an
\* interval is configured, starts running only by a start request with an
\* interval configured, and stops running only through a stop request.
C21_StartAndStopRequestsOnly ==
    /\ interval_configured => is_alive(1)
    /\ [][\A t \in Threads :
            /\ (~is_alive(t) /\ is_alive(t)')
                 => fpc = "sp_start" /\ interval_configured
            /\ (is_alive(t) /\ ~is_alive(t)')
                 => rpc[t] = "exit" /\ rpc'[t] = "dead"
         ]_vars

\* ---- SpecReporter, what a wake of the reporter does

\* C22: the first wake of the reporter (last_log_time unset) records the
\* clock reading as the baseline and pushes nothing; a later wake takes
\* elapsed = its clock reading - last_log_time and the value of
\* steps_since_last_log, pushes one record with total_steps, the rate
\* steps / elapsed (0 when elapsed <= 0) and the cumulative time, and then
\* sets steps_since_last_log to 0 and last_log_time to its clock reading;
\* nothing else pushes a step-stats record.
C22_WakeBehaviour ==
    [][\A t \in Threads :
         /\ (rpc[t] = "stats" /\ rpc'[t] # "stats" /\ last_log_time = <<>>)
              => /\ last_log_time' = <<now>>
                 /\ rpc'[t] = "wait"
                 /\ UNCHANGED <<n_emits, last_emit, steps_since_last_log,
                                time_elapsed>>
         /\ (rpc[t] = "stats" /\ rpc'[t] # "stats" /\ last_log_time # <<>>)
              => /\ rpc'[t] = "log"
                 /\ r_time'[t] = now
                 /\ r_minutes'[t] = now - last_log_time[1]
                 /\ r_steps'[t] = steps_since_last_log
                 /\ time_elapsed' = time_elapsed + r_minutes'[t]
                 /\ UNCHANGED <<n_emits, last_emit>>
         /\ (rpc[t] = "log" /\ rpc'[t] = "reset")
              => /\ n_emits' = n_emits + 1
                 /\ last_emit'.total_eval_steps = total_steps
                 /\ last_emit'.total_time_elapsed = time_elapsed
                 /\ last_emit'.eval_steps_per_minute
                      = IF r_minutes[t] > 0
                        THEN <<r_steps[t], r_minutes[t]>> ELSE <<0, 1>>
         /\ (rpc[t] = "reset" /\ rpc'[t] # "reset")
              => /\ steps_since_last_log' = 0
                 /\ last_log_time' = <<r_time[t]>>
                 /\ rpc'[t] = "wait"
         /\ n_emits' # n_emits
              => \E u \in Threads : rpc[u] = "log" /\ rpc'[u] = "reset"
      ]_vars

\* a later wake has pushed a record with a rate above 0 and has reset the
\* counter and the baseline
C22_LaterWakeEmitted ==
    /\ rpc[1] = "wait"
    /\ n_emits = 1
    /\ last_emit.eval_steps_per_minute = <<2, 1>>
    /\ last_emit.total_eval_steps = 2
    /\ last_emit.total_time_elapsed = 1
    /\ steps_since_last_log = 0
    /\ last_log_time = <<r_time[1]>>
    /\ r_time[1] = 1

\* ---- Spec, the declaration of the step axis

\* C23: when a record reaches the sink, from log_episode or from the flush
\* of the remaining frames, then for every key of the record the sink has
\* been told (define_metric) that keys under the label of that key use
\* num_episode as their axis.
C23_DeclaredBeforeEmission ==
    [][(last_call' # last_call /\ last_call'.emitted) =>
         \A key \in last_call'.keys :
            \E declared \in defined' : declared[1] = key[1]]_vars

\* ---- SpecBuffer, the bound of the frame windows

\* C24: a frame window never holds more than W = success_viz_every_n
\* entries; a log_episode call leaves the window of its label as it was
\* (no frames passed), or empties it (the windowed visualization was drawn),
\* or puts its entry at the end, behind the entries the window held, less
\* the oldest one when the window was full.
C24_WindowBoundedFifo ==
    /\ [](\A l \in LabelKeys : Len(past_frames[l]) <= success_viz_every_n)
    /\ [][(last_call' # last_call /\ last_call'.op = "log_episode") =>
            LET l == last_call'.label
                old == past_frames[l]
                new == past_frames'[l]
                kept == IF Len(old) = success_viz_every_n THEN Tail(old)
                                                           ELSE old
            IN  /\ WindowedKey(l) \in last_call'.frame_keys => new = <<>>
                /\ \/ new = old
                   \/ new = <<>> /\ WindowedKey(l) \in last_call'.frame_keys
                   \/ /\ Len(new) = Len(kept) + 1
                      /\ SubSeq(new, 1, Len(kept)) = kept
                      /\ new[Len(new)].step = last_call'.step
         ]_vars

\* a full window has taken one more entry and has dropped its oldest one
C24_OldestEvicted ==
    /\ frames_visualizer
    /\ Len(past_frames["a"]) = success_viz_every_n
    /\ past_frames["a"][1].step = 1
    /\ past_frames["a"][success_viz_every_n].step = success_viz_every_n
    /\ Len(past_success_rates["a"]) = success_viz_every_n + 1

\* ---- SpecInterrupt, the wait of the reporter and the stop event

\* C25: with the event set, a reporter that waits, or tests the event, or
\* has left its loop only goes on to end: it pushes nothing more; and once
\* the event is set every reporter thread has ended in the end, whether
\* the clock advances or not.
C25_StopInterruptsWait ==
    /\ [][\A t \in Threads :
            (time_logging /\ rpc[t] \in {"wait", "loop", "exit"})
              => /\ rpc'[t] \in {"wait", "loop", "exit", "dead"}
                 /\ rpc[t] = "wait" => rpc'[t] \in {"wait", "loop"}
                 /\ rpc[t] = "loop" => rpc'[t] \in {"loop", "exit"}
                 /\ n_emits' = n_emits
         ]_vars
    /\ (time_logging ~> \A t \in Threads : ~is_alive(t))

\* the event is set while the reporter waits and the foreground is in its
\* join
C25_SetWhileWaiting ==
    /\ time_logging
    /\ rpc[1] = "wait"
    /\ fpc = "st_joining"

\* ---- SpecRestart, the number of reporter threads

\* C26: at most one reporter thread is alive at any time.
C26_AtMostOneReporter ==
    Cardinality({t \in Threads : is_alive(t)}) <= 1

\* ---- SpecReporter, the effect of log_step

\* C27: a log_step call adds exactly 1 to total_steps and exactly 1 to
\* steps_since_last_log (the value the counter has when the call writes it
\* is one more than the value it had just before), and no step of the call
\* changes the success series, the frame windows, current_episode,
\* time_elapsed, last_log_time or the files.
C27_LogStepOnlyCounts ==
    [][(fpc \in {"idle", "ls_load", "ls_store"}
          /\ fpc' \in {"ls_load", "ls_store", "idle"} /\ fpc' # fpc
          /\ ~(fpc = "idle" /\ fpc' # "ls_load")) =>
         /\ total_steps' = total_steps + (IF fpc = "idle" THEN 1 ELSE 0)
         /\ steps_since_last_log'
              = steps_since_last_log + (IF fpc = "ls_store" THEN 1 ELSE 0)
         /\ UNCHANGED <<past_success_rates, past_frames, current_episode,
                        time_elapsed, last_log_time, meta_file, traj_files,
                        remote>>
      ]_vars

\* ---- SpecWindow, the window assertion with frames in every episode

\* C28: with periodic visualization on, when every log_episode call made
\* so far, this one included, carried a non-empty frame list, the call does
\* not fail with the assertion on the length of the window.
C28_NoWindowAssertionWithFrames ==
    [][(last_call' # last_call /\ last_call'.op = "log_episode"
          /\ frames_visualizer /\ periodic
          /\ \A l \in LabelKeys : calls'[l].with_frames) =>
         last_call'.frame_err # "AssertionError"]_vars

\* ---- SpecSequence, the state after a failed log_episode call

\* C29: a log_episode call that raises for a missing label, for the window
\* assertion or for a sink error leaves every success series and every
\* frame window as it was before the call.
C29_FailedCallLeavesState ==
    [][(last_call' # last_call /\ last_call'.op = "log_episode"
          /\ last_call'.err \in {"AssertionError", "SinkError"}) =>
         UNCHANGED <<past_success_rates, past_frames>>]_vars

\* ---- SpecWindow, the independence of the labels

\* C30: a log_episode call under a label puts exactly one flag at the end
\* of the success series of that label, changes the frame window of that
\* label by at most one new entry (or empties it after the windowed
\* visualization), and leaves the series and the window of every other
\* label as they were.
C30_LabelsIndependent ==
    [][(last_call' # last_call /\ last_call'.op = "log_episode") =>
         LET A == last_call'.label
             old == past_frames[A]
             new == past_frames'[A]
             fresh == {k \in 1..Len(new) :
                         \A j \in 1..Len(old) : old[j] # new[k]}
         IN  /\ Len(past_success_rates'[A])
                  = Len(past_success_rates[A]) + 1
             /\ SubSeq(past_success_rates'[A], 1,
                       Len(past_success_rates[A])) = past_success_rates[A]
             /\ Cardinality(fresh) <= 1
             /\ Len(new) <= Len(old) + 1
             /\ \A l \in LabelKeys \ {A} :
                   /\ past_success_rates'[l] = past_success_rates[l]
                   /\ past_frames'[l] = past_frames[l]
      ]_vars

\* the windowed visualization of label "a" has just been drawn and its
\* window emptied, while the window of label "b" holds an entry
C30_FlushBesideOtherLabel ==
    /\ last_call.op = "log_episode"
    /\ last_call.label = "a"
    /\ WindowedKey("a") \in last_call.frame_keys
    /\ past_frames["a"] = <<>>
    /\ past_frames["b"] # <<>>
    /\ past_success_rates["b"] # <<>>

\* ---- SpecReporter, stop_time_logging on every kind of logger

\* C31: a stop_time_logging call returns without raising on a logger built
\* without a sink, with a sink and no interval, and with both; on the first
\* two it changes neither the event nor the thread handle nor a thread.
C31_StopOnEveryLogger ==
    [][(fpc \in {"st_check1", "st_check2", "st_join", "st_clear"}
          /\ fpc' = "idle") =>
         /\ stop_result' = "returned"
         /\ ~(wandb_logger /\ interval_configured)
              => UNCHANGED <<time_logging, time_logging_thread, rpc>>
      ]_vars

\* ---- SpecElapsed, the cumulative elapsed time

\* the clock reading of the most recent wake of a reporter (the clock never
\* goes back, so it is the largest reading taken)
LastWake ==
    CHOOSE m \in {r_time[t] : t \in Threads} :
        \A t \in Threads : r_time[t] <= m

\* C32: time_elapsed counts every interval once: a wake that accounts for
\* time adds the time passed since the most recent wake before it, whether
\* the push of that wake succeeded or raised, so that time_elapsed is the
\* time of the latest accounted wake less the baseline of the first wake.
C32_ElapsedCountsOnce ==
    [][\A t \in Threads :
         (rpc[t] = "stats" /\ rpc'[t] = "log")
           => time_elapsed' = time_elapsed + (now - LastWake)]_vars

=============================================================================
